---- MODULE Spec2Model ----
(***************************************************************************)
(* Model of the freeform crate: the serialization scheme (scheme.rs, the   *)
(* Json scheme), the dual-representation cell Sord (sord.rs) and the       *)
(* string-keyed container Freeform (freeform.rs).                          *)
(*                                                                         *)
(* Text is a sequence of one-character strings, so that printing and       *)
(* parsing are computed and not assumed.  A typed value is a record        *)
(* [ty, v]: ty stands for the TypeId that Arc<dyn Any> carries, v is the   *)
(* payload (a sequence of naturals).                                       *)
(***************************************************************************)
EXTENDS Integers, Sequences, FiniteSets, TLC

(***************************************************************************)
(* Bounds of the model.                                                    *)
(***************************************************************************)
NThreads == 2
MaxContainers == 2
MaxCalls == 2

(***************************************************************************)
(* Program constants.                                                      *)
(***************************************************************************)
U8Max == 255

Threads == 1..NThreads

\* The Rust types used as type parameters: u8 (sord.rs test struct field),
\* usize (freeform.rs NUM_KEY), Vec<u8> (the Vec<T> of put_nonempty) and
\* HashMap<(u8,u8),u8>, a map whose keys the Json scheme cannot print.
Types == {"u8", "usize", "VecU8", "PairMap"}

\* The key names of the typed keys.
Keys == {"num", "map"}

TV(T, p) == [ty |-> T, v |-> p]

\* The typed values callers hand in.
Values ==
    { TV("u8", <<1>>), TV("usize", <<300>>),
      TV("VecU8", <<>>), TV("VecU8", <<1>>),
      TV("PairMap", <<1, 2, 3>>) }

\* The texts callers hand to from_se: valid and invalid Json.
Texts ==
    { <<"1">>, <<" ", "1">>, <<"3", "0", "0">>, <<"[", "1", "]">>,
      <<"{", "}">>, <<"x">> }

NV(k, p) == [ty |-> "Value", kind |-> k, v |-> p]

\* A native value that is an object, with its members.
NVObject(members) == [ty |-> "Value", kind |-> "Object", members |-> members]

\* A typed value that is a Freeform, with its map.
TVFreeform(f) == [ty |-> "Freeform", ff |-> f]

\* The native values (serde_json::Value) callers hand to from_value.
NativeValues ==
    { NV("Number", <<1>>), NV("Number", <<300>>), NV("Array", <<1>>),
      NVObject(<<>>) }

(***************************************************************************)
(* Results.                                                                *)
(***************************************************************************)
None == [tag |-> "None"]
Ok(x) == [tag |-> "Ok", val |-> x]
Err(e) == [tag |-> "Err", err |-> e]
Panic(m) == [tag |-> "Panic", msg |-> m]

IsOk(r) == r.tag = "Ok"
IsErr(r) == r.tag = "Err"
IsNone(r) == r.tag = "None"
IsPanic(r) == r.tag = "Panic"

\* SordError
WrongTypeError == [kind |-> "WrongTypeError"]
SeDeError(e) == [kind |-> "SeDeError", cause |-> e]

(***************************************************************************)
(* The Json scheme: serde_json::to_string and serde_json::from_str on the  *)
(* fragment of Json the model uses (naturals, numbers with a fraction of   *)
(* tenths, arrays of naturals, objects whose member names are key names,   *)
(* surrounding blanks).  A native value of kind "Number" is a              *)
(* Value::Number that holds an integer and one of kind "Float" is a        *)
(* Value::Number that holds a float; serde_json never finds the two equal. *)
(***************************************************************************)
DigitChar(d) ==
    CASE d = 0 -> "0" [] d = 1 -> "1" [] d = 2 -> "2" [] d = 3 -> "3"
      [] d = 4 -> "4" [] d = 5 -> "5" [] d = 6 -> "6" [] d = 7 -> "7"
      [] d = 8 -> "8" [] d = 9 -> "9"

DigitChars == {"0", "1", "2", "3", "4", "5", "6", "7", "8", "9"}

DigitVal(c) ==
    CASE c = "0" -> 0 [] c = "1" -> 1 [] c = "2" -> 2 [] c = "3" -> 3
      [] c = "4" -> 4 [] c = "5" -> 5 [] c = "6" -> 6 [] c = "7" -> 7
      [] c = "8" -> 8 [] c = "9" -> 9

RECURSIVE NumText(_)
NumText(n) ==
    IF n < 10 THEN <<DigitChar(n)>>
    ELSE NumText(n \div 10) \o <<DigitChar(n % 10)>>

RECURSIVE JoinNums(_)
JoinNums(p) ==
    IF p = <<>> THEN <<>>
    ELSE IF Len(p) = 1 THEN NumText(p[1])
    ELSE NumText(p[1]) \o <<",">> \o JoinNums(Tail(p))

ArrayText(p) == <<"[">> \o JoinNums(p) \o <<"]">>

RECURSIVE TrimLeft(_)
TrimLeft(s) ==
    IF s # <<>> /\ s[1] = " " THEN TrimLeft(Tail(s)) ELSE s

RECURSIVE TrimRight(_)
TrimRight(s) ==
    IF s # <<>> /\ s[Len(s)] = " " THEN TrimRight(SubSeq(s, 1, Len(s) - 1))
    ELSE s

Trim(s) == TrimRight(TrimLeft(s))

RECURSIVE DigitsVal(_, _)
DigitsVal(s, acc) ==
    IF s = <<>> THEN acc ELSE DigitsVal(Tail(s), acc * 10 + DigitVal(s[1]))

\* A Json natural: digits only, no leading zero.  -1 when s is not one.
ParseNat(s) ==
    IF /\ s # <<>>
       /\ \A i \in 1..Len(s) : s[i] \in DigitChars
       /\ (Len(s) > 1 => s[1] # "0")
    THEN DigitsVal(s, 0)
    ELSE -1

\* A Json number with a fraction, in tenths: digits, a point, one digit
\* and zeros.  -1 when s is not one.
ParseFloat(s) ==
    LET dots == {i \in 1..Len(s) : s[i] = "."}
    IN  IF dots = {} \/ \E i, j \in dots : i # j THEN -1
        ELSE LET d == CHOOSE i \in dots : TRUE
                 whole == ParseNat(SubSeq(s, 1, d - 1))
                 frac == SubSeq(s, d + 1, Len(s))
             IN  IF /\ whole >= 0
                    /\ frac # <<>>
                    /\ \A i \in 1..Len(frac) : frac[i] \in DigitChars
                    /\ \A i \in 2..Len(frac) : frac[i] = "0"
                 THEN whole * 10 + DigitVal(frac[1])
                 ELSE -1

\* The text of a float given in tenths: 10 prints as 1.0.
FloatText(t) == NumText(t \div 10) \o <<".", DigitChar(t % 10)>>

\* The comma-separated pieces of s.
RECURSIVE SplitComma(_, _)
SplitComma(s, cur) ==
    IF s = <<>> THEN <<cur>>
    ELSE IF s[1] = "," THEN <<cur>> \o SplitComma(Tail(s), <<>>)
    ELSE SplitComma(Tail(s), Append(cur, s[1]))

Bracketed(s, open, close) ==
    Len(s) >= 2 /\ s[1] = open /\ s[Len(s)] = close

Inner(s) == SubSeq(s, 2, Len(s) - 1)

\* The array of naturals s prints, as [ok, v].
ParseArray(s) ==
    IF ~Bracketed(s, "[", "]") THEN [ok |-> FALSE, v |-> <<>>]
    ELSE IF Trim(Inner(s)) = <<>> THEN [ok |-> TRUE, v |-> <<>>]
    ELSE LET parts == SplitComma(Inner(s), <<>>)
             nums == [i \in 1..Len(parts) |-> ParseNat(Trim(parts[i]))]
         IN  IF \A i \in 1..Len(nums) : nums[i] >= 0
             THEN [ok |-> TRUE, v |-> nums]
             ELSE [ok |-> FALSE, v |-> <<>>]

IsEmptyObject(s) == Bracketed(s, "{", "}") /\ Trim(Inner(s)) = <<>>

\* The characters of a key name.
KeyChars(name) ==
    CASE name = "num" -> <<"n", "u", "m">>
      [] name = "map" -> <<"m", "a", "p">>

\* serde_json::Map keeps its members sorted by name.
KeyOrder == <<"map", "num">>

Present(m, name) == ~IsNone(m[name])

\* The members of the map m (key name -> None or Some(native value)), as
\* the payload of an Object.
RECURSIVE Members(_, _)
Members(m, order) ==
    IF order = <<>> THEN <<>>
    ELSE (IF Present(m, Head(order))
          THEN <<[key |-> Head(order), val |-> m[Head(order)].val]>>
          ELSE <<>>) \o Members(m, Tail(order))

ObjectOf(m) == NVObject(Members(m, KeyOrder))

\* The map an Object stands for; of two members of one name the later one.
MapOf(members) ==
    [k \in Keys |->
        LET at == {i \in 1..Len(members) : members[i].key = k}
        IN  IF at = {} THEN [tag |-> "None"]
            ELSE [tag |-> "Some",
                  val |-> members[CHOOSE i \in at : \A j \in at : j <= i].val]]

\* serde_json::to_string of a native value.
RECURSIVE ValueText(_)
RECURSIVE JoinMembers(_)
JoinMembers(members) ==
    IF members = <<>> THEN <<>>
    ELSE LET one == <<"\"">> \o KeyChars(members[1].key) \o <<"\"", ":">>
                    \o ValueText(members[1].val)
         IN  IF Len(members) = 1 THEN one
             ELSE one \o <<",">> \o JoinMembers(Tail(members))

ValueText(nv) ==
    CASE nv.kind = "Number" -> NumText(nv.v[1])
      [] nv.kind = "Float" -> FloatText(nv.v[1])
      [] nv.kind = "Array" -> ArrayText(nv.v)
      [] nv.kind = "Object" -> <<"{">> \o JoinMembers(nv.members) \o <<"}">>

\* The pieces of s between the commas that are not inside brackets.
RECURSIVE SplitTop(_, _, _)
SplitTop(s, cur, depth) ==
    IF s = <<>> THEN <<cur>>
    ELSE IF s[1] = "," /\ depth = 0
    THEN <<cur>> \o SplitTop(Tail(s), <<>>, 0)
    ELSE SplitTop(Tail(s), Append(cur, s[1]),
                  IF s[1] \in {"[", "{"} THEN depth + 1
                  ELSE IF s[1] \in {"]", "}"} THEN depth - 1
                  ELSE depth)

NotParsed == [ok |-> FALSE, v |-> NV("Null", <<>>)]

\* The native value the trimmed text s prints, as [ok, v].
RECURSIVE ParseValue(_)

\* One member of an object: "name":value, as [ok, key, val].
ParseMember(p) ==
    LET quotes == {i \in 2..Len(p) : p[i] = "\""}
        fail == [ok |-> FALSE, key |-> "none", val |-> NotParsed.v]
    IN  IF p = <<>> \/ p[1] # "\"" \/ quotes = {} THEN fail
        ELSE LET q == CHOOSE i \in quotes : \A j \in quotes : i <= j
                 name == SubSeq(p, 2, q - 1)
                 rest == TrimLeft(SubSeq(p, q + 1, Len(p)))
                 keys == {k \in Keys : KeyChars(k) = name}
             IN  IF keys = {} \/ rest = <<>> \/ rest[1] # ":" THEN fail
                 ELSE LET val == ParseValue(Trim(Tail(rest)))
                      IN  IF val.ok
                          THEN [ok |-> TRUE, key |-> CHOOSE k \in keys : TRUE,
                                val |-> val.v]
                          ELSE fail

ParseValue(s) ==
    LET n == ParseNat(s)
        a == ParseArray(s)
    IN  IF n >= 0 THEN [ok |-> TRUE, v |-> NV("Number", <<n>>)]
        ELSE IF ParseFloat(s) >= 0
        THEN [ok |-> TRUE, v |-> NV("Float", <<ParseFloat(s)>>)]
        ELSE IF a.ok THEN [ok |-> TRUE, v |-> NV("Array", a.v)]
        ELSE IF IsEmptyObject(s) THEN [ok |-> TRUE, v |-> NVObject(<<>>)]
        ELSE IF Bracketed(s, "{", "}")
        THEN LET parts == SplitTop(Inner(s), <<>>, 0)
                 members == [i \in 1..Len(parts) |->
                                ParseMember(Trim(parts[i]))]
             IN  IF \A i \in 1..Len(members) : members[i].ok
                 THEN [ok |-> TRUE, v |-> ObjectOf(MapOf(members))]
                 ELSE NotParsed
        ELSE NotParsed

\* The conversions of Freeform to and from HashMap<String, S::Value>, which
\* its Serialize and Deserialize implementations go through.
RECURSIVE export(_)
RECURSIVE import(_)

DeError(T, s) == [op |-> "deserialize", ty |-> T, text |-> s]
SeError(T, p) == [op |-> "serialize", ty |-> T, v |-> p]

\* serde(try_from = "HashMap<String, S::Value>"): the Freeform the
\* conversion gave, or its error as the error of the deserializer.
TryFromMap(f, fail) == IF IsOk(f) THEN Ok(TVFreeform(f.val)) ELSE fail

\* serde(into = "HashMap<String, S::Value>"): the text of the map the
\* conversion gave; the call ends where the conversion does when that one
\* does not return.
IntoMapText(m) == IF IsOk(m) THEN Ok(ValueText(ObjectOf(m.val))) ELSE m

\* What the deserializer of T makes of the text s, n being the natural, a
\* the array and p the native value s prints.
Visit(T, s, n, a, p, fail) ==
    CASE T = "u8" ->
           IF n >= 0 /\ n <= U8Max THEN Ok(TV(T, <<n>>)) ELSE fail
      [] T = "usize" ->
           IF n >= 0 THEN Ok(TV(T, <<n>>)) ELSE fail
      [] T = "f64" ->
           IF n >= 0 THEN Ok(TV(T, <<n * 10>>))
           ELSE IF p.ok /\ p.v.kind = "Float" THEN Ok(TV(T, p.v.v))
           ELSE fail
      [] T = "VecU8" ->
           IF a.ok /\ \A i \in 1..Len(a.v) : a.v[i] <= U8Max
           THEN Ok(TV(T, a.v)) ELSE fail
      [] T = "PairMap" ->
           IF IsEmptyObject(s) THEN Ok(TV(T, <<>>)) ELSE fail
      [] T = "Value" -> IF p.ok THEN Ok(p.v) ELSE fail
      [] T = "Freeform" ->
           IF p.ok /\ p.v.kind = "Object"
           THEN TryFromMap(import(MapOf(p.v.members)), fail)
           ELSE fail

\* SerdeScheme::deserialize::<T>(input) for Json.
Deserialize(T, input) ==
    Visit(T, Trim(input), ParseNat(Trim(input)), ParseArray(Trim(input)),
          ParseValue(Trim(input)), Err(DeError(T, input)))

\* SerdeScheme::serialize::<T>(input) for Json.  A map with tuple keys
\* that is not empty cannot be printed ("key must be a string").  A
\* Freeform is printed as the map its conversion gives.
Serialize(val) ==
    CASE val.ty \in {"u8", "usize"} -> Ok(NumText(val.v[1]))
      [] val.ty = "f64" -> Ok(FloatText(val.v[1]))
      [] val.ty = "VecU8" -> Ok(ArrayText(val.v))
      [] val.ty = "PairMap" ->
           IF val.v = <<>> THEN Ok(<<"{", "}">>)
           ELSE Err(SeError(val.ty, val.v))
      [] val.ty = "Value" -> Ok(ValueText(val))
      [] val.ty = "Freeform" -> IntoMapText(export(val.ff))

\* Result::map_err(SordError::SeDeError)
MapSeDe(r) == IF IsErr(r) THEN Err(SeDeError(r.err)) ELSE r

(***************************************************************************)
(* Sord: the se slot, the de slot (both OnceLock) and the bound            *)
(* serializer se_fn.  A slot is None, Ok(..) or Err(SordError).            *)
(***************************************************************************)
MkSord(se, de, f) == [se |-> se, de |-> de, se_fn |-> f]

\* The ? on the result of S::serialize and the Sord built around the text.
OfText(se) == IF IsOk(se) THEN Ok(MkSord(Ok(se.val), None, "None")) ELSE se

\* Sord::from_de_ref::<T>(&de)
from_de_ref(val) == OfText(MapSeDe(Serialize(val)))

\* Mutant: from_de keeps only the text of the value, as from_de_ref does.
from_de_as_text(val) == MkSord(MapSeDe(Serialize(val)), None, "None")

\* Mutant: from_de does not capture the bound serializer.
from_de_no_fn(val) == MkSord(None, Ok(val), "None")

\* Mutant: from_de serializes at once and fills both slots.
from_de_eager(val) == MkSord(MapSeDe(Serialize(val)), Ok(val), val.ty)

\* Sord::from_de::<T>(de)
from_de(val) == MkSord(None, Ok(val), val.ty)

\* Mutant: from_se stores the text without its surrounding blanks.
from_se_trimmed(se) == MkSord(Ok(Trim(se)), None, "None")

\* Sord::from_se(se)
from_se(text) == MkSord(Ok(text), None, "None")

\* Mutant: from_value keeps the native value in the typed slot.
from_value_typed(nv) == Ok(MkSord(None, Ok(nv), "Value"))

\* Sord::from_value(&value)
from_value(nv) == OfText(MapSeDe(Serialize(nv)))

\* Mutant: the initializer deserializes the text as u8 whatever type its
\* caller asked for.
DeClosureAsU8(s, T) ==
    IF IsOk(s.se) THEN MapSeDe(Deserialize("u8", s.se.val))
    ELSE Panic("should not be possible for both se and de to be uninitialized")

\* The initializer closure of Sord::de::<T>: the content for the de slot.
DeClosure(s, T) ==
    IF IsNone(s.se)
    THEN Panic("should not be possible for both se and de to be uninitialized")
    ELSE IF IsErr(s.se)
    THEN Panic("should not be possible to initialize se as an error")
    ELSE MapSeDe(Deserialize(T, s.se.val))

\* Mutant: the content of the de slot is handed out without the downcast.
DeViewUnchecked(de, T) == de

\* Sord::de::<T>, after get_or_init: .as_ref().and_then(downcast_ref::<T>)
DeView(de, T) ==
    IF IsErr(de) THEN de
    ELSE IF de.val.ty = T THEN de ELSE Err(WrongTypeError)

\* The initializer closure of Sord::se::<T>: the content for the se slot.
SeClosure(s, T) ==
    IF IsNone(s.de)
    THEN Panic("should not be possible for both de and se to be uninitialized")
    ELSE IF IsErr(s.de)
    THEN Panic("should not be possible to initialize de as an error")
    ELSE IF s.de.val.ty # T THEN Err(WrongTypeError)
    ELSE MapSeDe(Serialize(s.de.val))

\* Sord::se::<T>, after get_or_init: .as_ref().map(borrow)
SeView(se) == se

\* SerdeScheme::serialize_as_any::<T>(input)
serialize_as_any(T, input) ==
    IF input.ty # T
    THEN Panic("this method should not be called unless we are sure the downcast will be successful")
    ELSE Serialize(input)

\* Sord::value, first branch: the se slot holds a text.
ValueFromSe(se) == MapSeDe(Deserialize("Value", se.val))

\* Mutant: an error cached in the se slot is returned instead of going
\* through the bound serializer.
ValueFromDeCachedErr(s) ==
    IF IsErr(s.se) THEN s.se
    ELSE IF IsOk(s.de) /\ s.se_fn # "None"
    THEN LET se_str == Serialize(s.de.val)
         IN  IF IsErr(se_str) THEN MapSeDe(se_str)
             ELSE MapSeDe(Deserialize("Value", se_str.val))
    ELSE Panic("Se or De should be the initial value")

\* Sord::value, second branch, after the bound serializer was called: the
\* ? on its result and the parse of the text.
ValueOfText(se_str) ==
    IF IsPanic(se_str) THEN se_str
    ELSE IF IsErr(se_str) THEN MapSeDe(se_str)
    ELSE MapSeDe(Deserialize("Value", se_str.val))

\* Sord::value, the branches taken when the se slot holds no text.
ValueFromDe(s) ==
    IF IsOk(s.de)
    THEN IF s.se_fn = "None"
         THEN Panic("se_fn should be created initialized with de")
         ELSE ValueOfText(serialize_as_any(s.se_fn, s.de.val))
    ELSE Panic("Se or De should be the initial value")

\* Sord::value on a Sord no other thread is writing.
SordValue(s) == IF IsOk(s.se) THEN ValueFromSe(s.se) ELSE ValueFromDe(s)

\* A slot of the Sord as the slot of a TypedSord: the scheme error without
\* its SordError wrapper.
TypedSlot(slot) == IF IsErr(slot) THEN Err(slot.err.cause) ELSE slot

\* Mutant: typed hands the typed slot over without the downcast.
typed_unchecked(s, T) ==
    IF s.se = Err(WrongTypeError) \/ s.de = Err(WrongTypeError) THEN None
    ELSE [tag |-> "Some", val |-> [se |-> TypedSlot(s.se), de |-> TypedSlot(s.de)]]

\* Sord::typed::<T>(self): None, or Some(TypedSord<T>)
typed(s, T) ==
    IF s.se = Err(WrongTypeError) THEN None
    ELSE IF IsOk(s.de) /\ s.de.val.ty # T THEN None
    ELSE IF s.de = Err(WrongTypeError) THEN None
    ELSE [tag |-> "Some", val |-> [se |-> TypedSlot(s.se), de |-> TypedSlot(s.de)]]

\* Mutant: only a successful result counts as a set slot, so a cached
\* failure is computed again.
SlotSetOkOnly(slot) == IsOk(slot)

\* OnceLock::get(..).is_some(), the test get_or_init starts with.
SlotSet(slot) == ~IsNone(slot)

\* get_or_init of the de slot, init being what the slot holds or what the
\* initializer gave: the Sord afterwards and the result of de::<T>.
DeOutcome(s, init, T) ==
    IF IsPanic(init) THEN [sord |-> s, ret |-> init]
    ELSE [sord |-> [s EXCEPT !.de = init], ret |-> DeView(init, T)]

\* The same for the se slot and se::<T>.
SeOutcome(s, init) ==
    IF IsPanic(init) THEN [sord |-> s, ret |-> init]
    ELSE [sord |-> [s EXCEPT !.se = init], ret |-> SeView(init)]

\* Sord::de::<T> run to completion by one caller: the Sord afterwards and
\* the result.
SordDe(s, T) ==
    DeOutcome(s, IF ~SlotSet(s.de) THEN DeClosure(s, T) ELSE s.de, T)

\* Sord::se::<T> run to completion by one caller.
SordSe(s, T) ==
    SeOutcome(s, IF ~SlotSet(s.se) THEN SeClosure(s, T) ELSE s.se)

(***************************************************************************)
(* TypedSord<T, S>: the two slots hold Result<String, S::Error> and        *)
(* Result<T, S::Error>; ty is the type parameter T.                        *)
(***************************************************************************)
MkTypedSord(T, se, de) == [ty |-> T, se |-> se, de |-> de]

\* TypedSord::<T, S>::from_se(se)
TypedSord_from_se(T, se) == MkTypedSord(T, Ok(se), None)

\* TypedSord::<T, S>::from_de(de)
TypedSord_from_de(de) == MkTypedSord(de.ty, None, Ok(de))

\* The initializer closure of TypedSord::de: the content for the de slot.
TypedDeClosure(ts) ==
    IF IsNone(ts.se)
    THEN Panic("should not be possible for both se and de to be uninitialized")
    ELSE IF IsErr(ts.se)
    THEN Panic("should not be possible to initialize se as an error")
    ELSE Deserialize(ts.ty, ts.se.val)

\* The initializer closure of TypedSord::se: the content for the se slot.
TypedSeClosure(ts) ==
    IF IsNone(ts.de)
    THEN Panic("should not be possible for both de and se to be uninitialized")
    ELSE IF IsErr(ts.de)
    THEN Panic("should not be possible to initialize de as an error")
    ELSE Serialize(ts.de.val)

\* get_or_init of a slot of the TypedSord, init being what the slot holds
\* or what the initializer gave: the TypedSord afterwards, the result, and
\* whether the initializer ran.
TypedDeOutcome(ts, init) ==
    [sord |-> IF IsPanic(init) THEN ts ELSE [ts EXCEPT !.de = init],
     ret |-> init, ran |-> ~SlotSet(ts.de)]

TypedSeOutcome(ts, init) ==
    [sord |-> IF IsPanic(init) THEN ts ELSE [ts EXCEPT !.se = init],
     ret |-> init, ran |-> ~SlotSet(ts.se)]

\* Mutant: de() computes the value for its caller and stores nothing.
TypedSord_de_uncached(ts) ==
    [sord |-> ts,
     ret |-> IF SlotSet(ts.de) THEN ts.de ELSE TypedDeClosure(ts),
     ran |-> ~SlotSet(ts.de)]

\* TypedSord::de(&self)
TypedSord_de(ts) ==
    TypedDeOutcome(ts, IF SlotSet(ts.de) THEN ts.de ELSE TypedDeClosure(ts))

\* TypedSord::se(&self)
TypedSord_se(ts) ==
    TypedSeOutcome(ts, IF SlotSet(ts.se) THEN ts.se ELSE TypedSeClosure(ts))

(***************************************************************************)
(* Freeform: a HashMap from key name to Sord.  A map is a function on Keys *)
(* to what HashMap::get returns: Some(sord), or None for "no entry".       *)
(***************************************************************************)
Some(x) == [tag |-> "Some", val |-> x]
Unit == [tag |-> "Unit"]

\* FreeformErr
SerdeError(e) == [kind |-> "SerdeError", cause |-> e]
RequiredKeyNotFound(name) == [kind |-> "RequiredKeyNotFound", name |-> name]
KeyTypeDoesNotMatch == [kind |-> "KeyTypeDoesNotMatch"]

\* Mutant: every SordError is reported as a key type mismatch.
FromSordErrorAllMismatch(e) == KeyTypeDoesNotMatch

\* impl From<&SordError<S>> for FreeformErr<S>
FromSordError(e) ==
    IF e = WrongTypeError THEN KeyTypeDoesNotMatch ELSE SerdeError(e.cause)

\* The ? operator on the result of Sord::de.
Try(r) == IF IsErr(r) THEN Err(FromSordError(r.err)) ELSE r

\* HashMap::insert
Insert(f, name, s) == [f EXCEPT ![name] = Some(s)]

\* Freeform::is_empty
is_empty(f) == \A k \in DOMAIN f : IsNone(f[k])

\* Ok(..) of get_optional wraps the reference in Some.
InSome(r) == IF IsOk(r) THEN Ok(Some(r.val)) ELSE r

\* Mutant: a read that fails removes the entry it read.
ReadEvictsOnError(f, name, d, optional) ==
    [ff |-> IF IsErr(d.ret) THEN [f EXCEPT ![name] = None]
            ELSE Insert(f, name, d.sord),
     ret |-> IF optional THEN InSome(Try(d.ret)) ELSE Try(d.ret)]

\* The read of a stored Sord, d being what its de::<T> gave: the map with
\* the Sord as the call left it, and the result after the ? operator.
Read(f, name, d, optional) ==
    [ff |-> Insert(f, name, d.sord),
     ret |-> IF optional THEN InSome(Try(d.ret)) ELSE Try(d.ret)]

\* Freeform::get_optional::<T>(key): the map afterwards and the result.
get_optional(f, name, T) ==
    IF ~IsNone(f[name])
    THEN Read(f, name, SordDe(f[name].val, T), TRUE)
    ELSE [ff |-> f, ret |-> Ok(None)]

\* T::default()
DefaultOf(T) ==
    CASE T \in {"u8", "usize", "f64"} -> TV(T, <<0>>)
      [] T \in {"VecU8", "PairMap"} -> TV(T, <<>>)
      [] T = "Freeform" -> TVFreeform([k \in Keys |-> None])

\* Mutant: the default also stands in for an error of get_optional.
OrDefaultOnError(r, T) ==
    [ff |-> r.ff,
     ret |-> Ok(IF IsOk(r.ret) /\ r.ret.val.tag = "Some" THEN r.ret.val.val
                ELSE DefaultOf(T))]

\* .map(|opt| opt.cloned().unwrap_or_default()) on what get_optional gave
OrDefault(r, T) ==
    [ff |-> r.ff,
     ret |-> IF IsOk(r.ret)
             THEN Ok(IF r.ret.val.tag = "Some" THEN r.ret.val.val
                     ELSE DefaultOf(T))
             ELSE r.ret]

\* Freeform::get_owned_or_default::<T>(key)
get_owned_or_default(f, name, T) ==
    OrDefault(get_optional(f, name, T), T)

\* Freeform::get_cloned_or_default::<T>(key)
get_cloned_or_default(f, name, T) ==
    OrDefault(get_optional(f, name, T), T)

\* Mutant: a stored value of another type is reported as a missing key.
get_required_mismatch_as_missing(f, name, T) ==
    LET d == IF IsNone(f[name]) THEN [sord |-> None, ret |-> Err(WrongTypeError)]
             ELSE SordDe(f[name].val, T)
    IN  IF IsNone(f[name]) \/ d.ret = Err(WrongTypeError)
        THEN [ff |-> f, ret |-> Err(RequiredKeyNotFound(name))]
        ELSE [ff |-> Insert(f, name, d.sord), ret |-> Try(d.ret)]

\* Freeform::get_required::<T>(key)
get_required(f, name, T) ==
    IF ~IsNone(f[name])
    THEN Read(f, name, SordDe(f[name].val, T), FALSE)
    ELSE [ff |-> f, ret |-> Err(RequiredKeyNotFound(name))]

\* Mutant: put keeps an entry that is already stored under the name.
put_if_absent(f, name, data) ==
    [ff |-> IF IsNone(f[name]) THEN Insert(f, name, from_de(data)) ELSE f,
     ret |-> Ok(Unit)]

\* Mutant: put serializes the value at once, as put_ref does.
put_serialized(f, name, data) ==
    LET sord_data == from_de_ref(data)
    IN  IF IsErr(sord_data)
        THEN [ff |-> f, ret |-> Err(FromSordError(sord_data.err))]
        ELSE [ff |-> Insert(f, name, sord_data.val), ret |-> Ok(Unit)]

\* Freeform::put::<T>(key, data)
put(f, name, data) ==
    [ff |-> Insert(f, name, from_de(data)), ret |-> Ok(Unit)]

\* put_ref after from_de_ref: the ? on its result, then the insert.
InsertOk(f, name, sord_data) ==
    IF IsErr(sord_data)
    THEN [ff |-> f, ret |-> Err(FromSordError(sord_data.err))]
    ELSE IF IsPanic(sord_data) THEN [ff |-> f, ret |-> sord_data]
    ELSE [ff |-> Insert(f, name, sord_data.val), ret |-> Ok(Unit)]

\* Mutant: a failed put_ref drops the entry stored under the name.
put_ref_remove_on_fail(f, name, data) ==
    LET sord_data == from_de_ref(data)
    IN  IF IsErr(sord_data)
        THEN [ff |-> [f EXCEPT ![name] = None],
              ret |-> Err(FromSordError(sord_data.err))]
        ELSE [ff |-> Insert(f, name, sord_data.val), ret |-> Ok(Unit)]

\* Freeform::put_ref::<T>(key, &data)
put_ref(f, name, data) == InsertOk(f, name, from_de_ref(data))

\* Freeform::put_optional::<T>(key, data), data being None or Some(value)
put_optional(f, name, data) ==
    IF data.tag = "Some" THEN put(f, name, data.val)
    ELSE [ff |-> f, ret |-> Ok(Unit)]

\* Freeform::put_optional_ref::<T>(key, data)
put_optional_ref(f, name, data) ==
    IF data.tag = "Some" THEN put_ref(f, name, data.val)
    ELSE [ff |-> f, ret |-> Ok(Unit)]

\* Mutant: put_nonempty stores an empty Vec too.
put_nonempty_always(f, name, data) == put(f, name, data)

\* Freeform::put_nonempty::<T>(key, data), data being a Vec
put_nonempty(f, name, data) ==
    IF data.v = <<>> THEN [ff |-> f, ret |-> Ok(Unit)]
    ELSE put(f, name, data)

\* Freeform::put_nonempty_ref::<T>(key, &data)
put_nonempty_ref(f, name, data) ==
    IF data.v = <<>> THEN [ff |-> f, ret |-> Ok(Unit)]
    ELSE put_ref(f, name, data)

\* Mutant: extend keeps the entry the map already holds under a name.
extend_keep_first(acm, effects) ==
    [k \in DOMAIN acm |-> IF IsNone(acm[k]) THEN effects[k] ELSE acm[k]]

\* impl Extend for Freeform: HashMap::extend inserts every entry of effects.
extend(acm, effects) ==
    [k \in DOMAIN acm |-> IF IsNone(effects[k]) THEN acm[k] ELSE effects[k]]

\* Iterator::reduce with the closure of aggregate, acm being the first item
\* or the result so far.
RECURSIVE reduce(_, _)
reduce(acm, rest) ==
    IF rest = <<>> THEN acm
    ELSE reduce(extend(acm, Head(rest)), Tail(rest))

\* Freeform::aggregate(freeform), freeform being a sequence of Freeforms
aggregate(freeform) ==
    IF freeform = <<>> THEN None
    ELSE Some(reduce(Head(freeform), Tail(freeform)))

\* .expect("Should be able to serialize") on the result of value() of
\* every entry, and collect.
ExpectAll(vals) ==
    LET aborts == {k \in DOMAIN vals : IsPanic(vals[k])}
    IN  IF \A k \in DOMAIN vals : IsNone(vals[k]) \/ IsOk(vals[k])
        THEN Ok([k \in DOMAIN vals |->
                    IF IsNone(vals[k]) THEN None ELSE Some(vals[k].val)])
        ELSE IF aborts # {} THEN vals[CHOOSE k \in aborts : TRUE]
        ELSE Panic("Should be able to serialize")

\* impl From<Freeform<S>> for HashMap<String, S::Value>: the map from key
\* name to None or Some(native value), or the abort of the expect.
export(metadata) ==
    ExpectAll([k \in DOMAIN metadata |->
                  IF IsNone(metadata[k]) THEN None
                  ELSE SordValue(metadata[k].val)])

\* collect::<Result<_, _>>() and the ? on it: the error is that of the
\* first entry from_value failed on.
Collect(converted_map) ==
    LET failed == {k \in DOMAIN converted_map : IsErr(converted_map[k])}
    IN  IF failed = {}
        THEN Ok([k \in DOMAIN converted_map |->
                    IF IsNone(converted_map[k]) THEN None
                    ELSE Some(converted_map[k].val)])
        ELSE Err(FromSordError(converted_map[CHOOSE k \in failed : TRUE].err))

\* impl TryFrom<HashMap<String, S::Value>> for Freeform<S>
import(map) ==
    Collect([k \in DOMAIN map |->
                IF IsNone(map[k]) THEN None ELSE from_value(map[k].val)])

\* Result::map_err(FreeformErr::SerdeError)
MapSerdeError(r) == IF IsErr(r) THEN Err(SerdeError(r.err)) ELSE r

\* Freeform::serialize(&self): the scheme serializes the Freeform through
\* its conversion into the map of native values.
serialize(f) == MapSerdeError(Serialize(TVFreeform(f)))

(***************************************************************************)
(* State.  One Sord shared by the threads (Spec), one Freeform used by a   *)
(* single owner (FreeformSpec), and a sequence of Freeforms handed to      *)
(* aggregate (AggregateSpec).                                              *)
(***************************************************************************)
VARIABLES
    sord,       \* the shared Sord
    origin,     \* how the shared Sord was constructed, and from what
    thr,        \* per thread: position in its call, type parameter, result
    deCalls,    \* S::deserialize calls made by initializers of the de slot
    seCalls,    \* S::serialize calls made by initializers of the se slot
    accessed,   \* an access operation has been called on the shared Sord
    ff,         \* the Freeform: key name -> Some(Sord), or None
    ffRet,      \* the last Freeform operation, its arguments and its result
    lastPut,    \* per key name: the value of the last put, if still stored
    ffs,        \* the Freeforms built for aggregate, in order
    out,        \* the aggregate call made, its argument and its result
    into,       \* the typed::<T>() call that consumed the shared Sord
    pair,       \* a text, a value it encodes, and the Sord built from each
    pairRet,    \* the last operation on the pair and its two results
    typedSord,  \* a Sord on its way to typed::<T>(), or a TypedSord
    typedRet,   \* the last operation on it and its result
    typedCalls  \* scheme calls made by the initializers of the TypedSord

sordVars == <<sord, origin, thr, deCalls, seCalls, accessed, into>>
ffVars == <<ff, ffRet, lastPut>>
aggVars == <<ffs, out>>
pairVars == <<pair, pairRet>>
typedVars == <<typedSord, typedRet, typedCalls>>
vars ==
    <<sord, origin, thr, deCalls, seCalls, accessed, ff, ffRet, lastPut,
      ffs, out, into, pair, pairRet, typedSord, typedRet, typedCalls>>

Idle == [pc |-> "idle", op |-> "none", ty |-> "none", ret |-> None]

Bump(c) == IF c < MaxCalls THEN c + 1 ELSE c

FreeformNew == [k \in Keys |-> None]

FreeformIdle ==
    /\ ff = FreeformNew
    /\ ffRet = [op |-> "new", key |-> "none", ty |-> "none", data |-> None,
                ret |-> None]
    /\ lastPut = [k \in Keys |-> None]

NotConsumed == [called |-> FALSE, ty |-> "none", ret |-> None]

\* No pair is looked at: the pair of the text 1 and the u8 1, untouched.
PairIdle ==
    /\ pair = [text |-> <<"1">>, val |-> TV("u8", <<1>>),
               a |-> from_se(<<"1">>), b |-> from_de(TV("u8", <<1>>)),
               first |-> "none"]
    /\ pairRet = [op |-> "none", ty |-> "none", a |-> None, b |-> None]

\* No TypedSord is looked at.
TypedIdle ==
    /\ typedSord = [stage |-> "none", via |-> "none", cell |-> None]
    /\ typedRet = [op |-> "none", ty |-> "none", ret |-> None]
    /\ typedCalls = [de |-> 0, se |-> 0]

AggregateIdle ==
    /\ ffs = <<>>
    /\ out = [op |-> "none", arg |-> <<>>, ret |-> None]

\* The Sords the four constructors build, with their origin.
Constructed ==
    { [sord |-> from_de(val), origin |-> [ctor |-> "from_de", val |-> val]] :
        val \in Values }
    \cup
    { [sord |-> from_de_ref(val).val,
       origin |-> [ctor |-> "from_de_ref", val |-> val]] :
        val \in {w \in Values : IsOk(from_de_ref(w))} }
    \cup
    { [sord |-> from_se(text), origin |-> [ctor |-> "from_se", text |-> text]] :
        text \in Texts }
    \cup
    { [sord |-> from_value(nv).val,
       origin |-> [ctor |-> "from_value", val |-> nv]] :
        nv \in {w \in NativeValues : IsOk(from_value(w))} }

Init ==
    /\ \E c \in Constructed : sord = c.sord /\ origin = c.origin
    /\ thr = [t \in Threads |-> Idle]
    /\ deCalls = 0
    /\ seCalls = 0
    /\ accessed = FALSE
    /\ into = NotConsumed
    /\ FreeformIdle
    /\ AggregateIdle
    /\ PairIdle
    /\ TypedIdle

(***************************************************************************)
(* OnceLock::get_or_init: a caller that finds the slot empty runs the      *)
(* initializer unless another caller is running it, in which case it       *)
(* waits; a panicking initializer leaves the slot empty.                   *)
(***************************************************************************)
\* Mutant: the de slot counts as being initialized from the moment a caller
\* has entered de, the caller itself included.
DeEntered == \E u \in Threads : thr[u].pc \in {"de_call", "de_init"}

DeRunning == \E u \in Threads : thr[u].pc = "de_init"
SeRunning == \E u \in Threads : thr[u].pc = "se_init"

\* Mutants: the initializer is run without the claim, by every caller that
\* found the slot empty.
RacyClaimDe == TRUE
RacyClaimSe == TRUE

\* The claim get_or_init takes before it runs the initializer.
CanClaimDe == ~DeRunning
CanClaimSe == ~SeRunning

Begin(t, op, T, pc) ==
    /\ ~into.called
    /\ thr[t].pc = "idle"
    /\ thr' = [thr EXCEPT ![t] = [pc |-> pc, op |-> op, ty |-> T, ret |-> None]]
    /\ accessed' = TRUE
    /\ UNCHANGED <<sord, origin, deCalls, seCalls>>

Finish(t, r) == thr' = [thr EXCEPT ![t].pc = "done", ![t].ret = r]

Goto(t, pc) == thr' = [thr EXCEPT ![t].pc = pc]

\* sord.de::<T>() is called.
DeCall(t, T) == Begin(t, "de", T, "de_call") /\ UNCHANGED <<into, ffVars, aggVars, pairVars, typedVars>>

\* self.de.get_or_init: the slot is set and the caller returns its
\* downcast, or the caller claims the initialization.
DeGetOrInit(t) ==
    /\ thr[t].pc = "de_call"
    /\ IF SlotSet(sord.de) THEN Finish(t, DeView(sord.de, thr[t].ty))
       ELSE CanClaimDe /\ Goto(t, "de_init")
    /\ UNCHANGED <<sord, origin, deCalls, seCalls, accessed>>
    /\ UNCHANGED <<into, ffVars, aggVars, pairVars, typedVars>>

\* The initializer of the de slot runs, its result is stored and the
\* caller returns the downcast of what it stored.
DeInit(t) ==
    /\ thr[t].pc = "de_init"
    /\ LET r == DeClosure(sord, thr[t].ty)
       IN  IF IsPanic(r)
           THEN Finish(t, r) /\ UNCHANGED <<sord, deCalls>>
           ELSE /\ sord' = [sord EXCEPT !.de = r]
                /\ deCalls' = Bump(deCalls)
                /\ Finish(t, DeView(r, thr[t].ty))
    /\ UNCHANGED <<origin, seCalls, accessed>>
    /\ UNCHANGED <<into, ffVars, aggVars, pairVars, typedVars>>

\* sord.se::<T>() is called.
SeCall(t, T) == Begin(t, "se", T, "se_call") /\ UNCHANGED <<into, ffVars, aggVars, pairVars, typedVars>>

SeGetOrInit(t) ==
    /\ thr[t].pc = "se_call"
    /\ IF SlotSet(sord.se) THEN Finish(t, SeView(sord.se))
       ELSE CanClaimSe /\ Goto(t, "se_init")
    /\ UNCHANGED <<sord, origin, deCalls, seCalls, accessed>>
    /\ UNCHANGED <<into, ffVars, aggVars, pairVars, typedVars>>

\* The initializer of the se slot runs and its result is stored.  A failed
\* downcast returns before S::serialize is called.
SeInit(t) ==
    /\ thr[t].pc = "se_init"
    /\ LET r == SeClosure(sord, thr[t].ty)
       IN  IF IsPanic(r)
           THEN Finish(t, r) /\ UNCHANGED <<sord, seCalls>>
           ELSE /\ sord' = [sord EXCEPT !.se = r]
                /\ seCalls' = IF r = Err(WrongTypeError) THEN seCalls
                              ELSE Bump(seCalls)
                /\ Finish(t, SeView(r))
    /\ UNCHANGED <<origin, deCalls, accessed>>
    /\ UNCHANGED <<into, ffVars, aggVars, pairVars, typedVars>>

\* sord.value() is called.
ValueCall(t) == Begin(t, "value", "none", "value_se") /\ UNCHANGED <<into, ffVars, aggVars, pairVars, typedVars>>

\* if let Some(Ok(se)) = self.se.get()
ValueSe(t) ==
    /\ thr[t].pc = "value_se"
    /\ IF IsOk(sord.se) THEN Finish(t, ValueFromSe(sord.se))
       ELSE Goto(t, "value_de")
    /\ UNCHANGED <<sord, origin, deCalls, seCalls, accessed>>
    /\ UNCHANGED <<into, ffVars, aggVars, pairVars, typedVars>>

\* else if let Some(Ok(de)) = self.de.get() ... else unreachable!
ValueDe(t) ==
    /\ thr[t].pc = "value_de"
    /\ Finish(t, ValueFromDe(sord))
    /\ UNCHANGED <<sord, origin, deCalls, seCalls, accessed>>
    /\ UNCHANGED <<into, ffVars, aggVars, pairVars, typedVars>>

\* The caller takes its result and is free to call again.
Return(t) ==
    /\ thr[t].pc = "done"
    /\ thr' = [thr EXCEPT ![t] = Idle]
    /\ UNCHANGED <<sord, origin, deCalls, seCalls, accessed>>
    /\ UNCHANGED <<into, ffVars, aggVars, pairVars, typedVars>>

\* sord.typed::<T>() consumes the Sord, which no caller is using.
IntoTyped(T) ==
    /\ ~into.called
    /\ \A t \in Threads : thr[t].pc = "idle"
    /\ into' = [called |-> TRUE, ty |-> T, ret |-> typed(sord, T)]
    /\ UNCHANGED <<sord, origin, thr, deCalls, seCalls, accessed>>
    /\ UNCHANGED <<ffVars, aggVars, pairVars, typedVars>>

Next ==
    \/ \E T \in Types : IntoTyped(T)
    \/ \E t \in Threads :
        \/ \E T \in Types : DeCall(t, T)
        \/ DeGetOrInit(t)
        \/ DeInit(t)
        \/ \E T \in Types : SeCall(t, T)
        \/ SeGetOrInit(t)
        \/ SeInit(t)
        \/ ValueCall(t)
        \/ ValueSe(t)
        \/ ValueDe(t)
        \/ Return(t)

Spec == Init /\ [][Next]_vars

(***************************************************************************)
(* The same callers under a fair scheduler: a thread inside a call that    *)
(* can take its next step takes it.  The scheme calls made by DeInit,      *)
(* SeInit, ValueSe and ValueDe terminate, so each is one step; a caller    *)
(* blocked in get_or_init is woken when the running initializer returns.   *)
(* Calling and taking the result are the caller's choice and carry no      *)
(* fairness.                                                               *)
(***************************************************************************)
Step(t) ==
    \/ DeGetOrInit(t)
    \/ DeInit(t)
    \/ SeGetOrInit(t)
    \/ SeInit(t)
    \/ ValueSe(t)
    \/ ValueDe(t)

\* The Sords the fair callers share: one whose de slot is to be computed
\* and one whose se slot is; for both, the initializer succeeds with some
\* of the types and fails with the others.
FairConstructed ==
    { c \in Constructed :
        \/ c.origin.ctor = "from_se" /\ c.origin.text = <<"1">>
        \/ c.origin.ctor = "from_de" /\ c.origin.val.ty = "u8" }

FairInit ==
    /\ \E c \in FairConstructed : sord = c.sord /\ origin = c.origin
    /\ thr = [t \in Threads |-> Idle]
    /\ deCalls = 0
    /\ seCalls = 0
    /\ accessed = FALSE
    /\ into = NotConsumed
    /\ FreeformIdle
    /\ AggregateIdle
    /\ PairIdle
    /\ TypedIdle

FairSpec ==
    FairInit /\ [][Next]_vars /\ \A t \in Threads : WF_vars(Step(t))

(***************************************************************************)
(* The Freeform used by one owner: every operation runs to completion.     *)
(***************************************************************************)
SordIdle ==
    /\ sord = from_se(<<"1">>)
    /\ origin = [ctor |-> "from_se", text |-> <<"1">>]
    /\ thr = [t \in Threads |-> Idle]
    /\ deCalls = 0
    /\ seCalls = 0
    /\ accessed = FALSE
    /\ into = NotConsumed

FreeformInit ==
    SordIdle /\ FreeformIdle /\ AggregateIdle /\ PairIdle /\ TypedIdle

Vecs == {val \in Values : val.ty = "VecU8"}

\* data is the value argument of the operation: None, or Some(value).
Done(op, name, T, data, r) ==
    /\ ff' = r.ff
    /\ ffRet' = [op |-> op, key |-> name, ty |-> T, data |-> data,
                 ret |-> r.ret]

GetOptional(name, T) ==
    /\ Done("get_optional", name, T, None, get_optional(ff, name, T))
    /\ UNCHANGED lastPut
    /\ UNCHANGED <<sordVars, aggVars, pairVars, typedVars>>

GetRequired(name, T) ==
    /\ Done("get_required", name, T, None, get_required(ff, name, T))
    /\ UNCHANGED lastPut
    /\ UNCHANGED <<sordVars, aggVars, pairVars, typedVars>>

Put(name, data) ==
    /\ Done("put", name, data.ty, Some(data), put(ff, name, data))
    /\ lastPut' = [lastPut EXCEPT ![name] = Some(data)]
    /\ UNCHANGED <<sordVars, aggVars, pairVars, typedVars>>

PutRef(name, data) ==
    /\ Done("put_ref", name, data.ty, Some(data), put_ref(ff, name, data))
    /\ lastPut' = IF IsOk(ffRet'.ret) THEN [lastPut EXCEPT ![name] = None]
                  ELSE lastPut
    /\ UNCHANGED <<sordVars, aggVars, pairVars, typedVars>>

GetOwnedOrDefault(name, T) ==
    /\ Done("get_owned_or_default", name, T, None,
            get_owned_or_default(ff, name, T))
    /\ UNCHANGED lastPut
    /\ UNCHANGED <<sordVars, aggVars, pairVars, typedVars>>

GetClonedOrDefault(name, T) ==
    /\ Done("get_cloned_or_default", name, T, None,
            get_cloned_or_default(ff, name, T))
    /\ UNCHANGED lastPut
    /\ UNCHANGED <<sordVars, aggVars, pairVars, typedVars>>

PutOptional(name, T, data) ==
    /\ Done("put_optional", name, T, data, put_optional(ff, name, data))
    /\ lastPut' = IF data.tag = "Some" THEN [lastPut EXCEPT ![name] = data]
                  ELSE lastPut
    /\ UNCHANGED <<sordVars, aggVars, pairVars, typedVars>>

PutOptionalRef(name, T, data) ==
    /\ Done("put_optional_ref", name, T, data,
            put_optional_ref(ff, name, data))
    /\ lastPut' = IF data.tag = "Some" /\ IsOk(ffRet'.ret)
                  THEN [lastPut EXCEPT ![name] = None]
                  ELSE lastPut
    /\ UNCHANGED <<sordVars, aggVars, pairVars, typedVars>>

PutNonempty(name, data) ==
    /\ Done("put_nonempty", name, data.ty, Some(data),
            put_nonempty(ff, name, data))
    /\ lastPut' = IF data.v # <<>> THEN [lastPut EXCEPT ![name] = Some(data)]
                  ELSE lastPut
    /\ UNCHANGED <<sordVars, aggVars, pairVars, typedVars>>

PutNonemptyRef(name, data) ==
    /\ Done("put_nonempty_ref", name, data.ty, Some(data),
            put_nonempty_ref(ff, name, data))
    /\ lastPut' = IF data.v # <<>> /\ IsOk(ffRet'.ret)
                  THEN [lastPut EXCEPT ![name] = None]
                  ELSE lastPut
    /\ UNCHANGED <<sordVars, aggVars, pairVars, typedVars>>

Options(T) == {None} \cup {Some(val) : val \in {w \in Values : w.ty = T}}

FreeformNext ==
    \E name \in Keys :
        \/ \E T \in Types : GetOptional(name, T)
        \/ \E T \in Types : GetRequired(name, T)
        \/ \E T \in Types : GetOwnedOrDefault(name, T)
        \/ \E T \in Types : GetClonedOrDefault(name, T)
        \/ \E data \in Values : Put(name, data)
        \/ \E data \in Values : PutRef(name, data)
        \/ \E T \in Types : \E data \in Options(T) : PutOptional(name, T, data)
        \/ \E T \in Types : \E data \in Options(T) : PutOptionalRef(name, T, data)
        \/ \E data \in Vecs : PutNonempty(name, data)
        \/ \E data \in Vecs : PutNonemptyRef(name, data)

FreeformSpec == FreeformInit /\ [][FreeformNext]_vars

(***************************************************************************)
(* ConversionSpec: the owner of one Freeform stores values, nested         *)
(* Freeforms among them, reads them, converts the Freeform to the map of   *)
(* native values and converts such a map back.                             *)
(***************************************************************************)
\* The Freeforms stored as values: built by new and one put or put_ref.
InnerFreeforms ==
    {FreeformNew}
    \cup {put(FreeformNew, "num", val).ff :
            val \in {w \in Values : w.ty \in {"u8", "PairMap"}}}
    \cup {put_ref(FreeformNew, "num", val).ff :
            val \in {w \in Values : w.ty = "u8"}}

ConvValues ==
    {val \in Values : val.ty \in {"u8", "PairMap"}}
    \cup {TVFreeform(f) : f \in InnerFreeforms}

ConvTypes == {"u8", "Freeform"}

\* HashMap::from(freeform.clone())
Export ==
    /\ ffRet' = [op |-> "export", key |-> "none", ty |-> "none",
                 data |-> None, ret |-> export(ff)]
    /\ UNCHANGED <<ff, lastPut>>
    /\ UNCHANGED <<sordVars, aggVars, pairVars, typedVars>>

\* Freeform::try_from(map), map being the one the last conversion gave
Import ==
    /\ ffRet.op = "export"
    /\ IsOk(ffRet.ret)
    /\ LET r == import(ffRet.ret.val)
       IN  /\ ffRet' = [op |-> "import", key |-> "none", ty |-> "none",
                        data |-> Some(ffRet.ret.val), ret |-> r]
           /\ ff' = IF IsOk(r) THEN r.val ELSE ff
    /\ lastPut' = [k \in Keys |-> None]
    /\ UNCHANGED <<sordVars, aggVars, pairVars, typedVars>>

\* freeform.serialize()
FreeformSerialize ==
    /\ ffRet' = [op |-> "serialize", key |-> "none", ty |-> "none",
                 data |-> None, ret |-> serialize(ff)]
    /\ UNCHANGED <<ff, lastPut>>
    /\ UNCHANGED <<sordVars, aggVars, pairVars, typedVars>>

ConversionNext ==
    \/ \E name \in Keys : \E data \in ConvValues : Put(name, data)
    \/ \E name \in Keys : \E data \in ConvValues : PutRef(name, data)
    \/ \E name \in Keys : \E T \in ConvTypes : GetRequired(name, T)
    \/ Export
    \/ Import
    \/ FreeformSerialize

ConversionSpec == FreeformInit /\ [][ConversionNext]_vars

(***************************************************************************)
(* PairSpec: a text and a value of type T that the text encodes, the Sord  *)
(* from_se builds from the text and the Sord from_de builds from the       *)
(* value, and one owner that calls the same operation on both.             *)
(***************************************************************************)
PairTypes == Types \cup {"f64"}

PairTexts == Texts \cup {<<"1", ".", "0">>}

PairValues == Values \cup {TV("f64", <<10>>)}

Encodes(text, val) == Deserialize(val.ty, text) = Ok(val)

PairInit ==
    /\ SordIdle
    /\ FreeformIdle
    /\ AggregateIdle
    /\ TypedIdle
    /\ \E text \in PairTexts : \E val \in PairValues :
          /\ Encodes(text, val)
          /\ pair = [text |-> text, val |-> val, a |-> from_se(text),
                     b |-> from_de(val), first |-> "none"]
    /\ pairRet = [op |-> "none", ty |-> "none", a |-> None, b |-> None]

\* The operation op was called on both Sords, a and b being what the calls
\* gave: the Sord afterwards and the result.
PairDone(op, T, a, b) ==
    /\ pair' = [pair EXCEPT !.a = a.sord, !.b = b.sord,
                            !.first = IF op = "de" /\ @ = "none" THEN T ELSE @]
    /\ pairRet' = [op |-> op, ty |-> T, a |-> a.ret, b |-> b.ret]

PairDe(T) ==
    /\ PairDone("de", T, SordDe(pair.a, T), SordDe(pair.b, T))
    /\ UNCHANGED <<sordVars, ffVars, aggVars, typedVars>>

PairSe(T) ==
    /\ PairDone("se", T, SordSe(pair.a, T), SordSe(pair.b, T))
    /\ UNCHANGED <<sordVars, ffVars, aggVars, typedVars>>

PairValue ==
    /\ PairDone("value", "none",
                [sord |-> pair.a, ret |-> SordValue(pair.a)],
                [sord |-> pair.b, ret |-> SordValue(pair.b)])
    /\ UNCHANGED <<sordVars, ffVars, aggVars, typedVars>>

PairNext ==
    \/ \E T \in PairTypes : PairDe(T)
    \/ \E T \in PairTypes : PairSe(T)
    \/ PairValue

PairSpec == PairInit /\ [][PairNext]_vars

(***************************************************************************)
(* A TypedSord used by one owner: built by TypedSord::from_se or           *)
(* TypedSord::from_de, or by Sord::typed from a Sord that its owner has    *)
(* called de and se on.                                                    *)
(***************************************************************************)
TypedInit ==
    /\ SordIdle
    /\ FreeformIdle
    /\ AggregateIdle
    /\ PairIdle
    /\ typedSord \in
          { [stage |-> "sord", via |-> "typed", cell |-> c.sord] :
              c \in Constructed }
          \cup
          { [stage |-> "typed", via |-> "from_se",
             cell |-> TypedSord_from_se(T, text)] :
              T \in Types, text \in Texts }
          \cup
          { [stage |-> "typed", via |-> "from_de",
             cell |-> TypedSord_from_de(val)] : val \in Values }
    /\ typedRet = [op |-> "none", ty |-> "none", ret |-> None]
    /\ typedCalls = [de |-> 0, se |-> 0]

\* An operation on the Sord that typed::<T>() is going to consume.
BeforeDone(op, T, o) ==
    /\ typedSord' = [typedSord EXCEPT !.cell = o.sord]
    /\ typedRet' = [op |-> op, ty |-> T, ret |-> o.ret]

BeforeDe(T) ==
    /\ typedSord.stage = "sord"
    /\ BeforeDone("sord_de", T, SordDe(typedSord.cell, T))
    /\ UNCHANGED typedCalls
    /\ UNCHANGED <<sordVars, ffVars, aggVars, pairVars>>

BeforeSe(T) ==
    /\ typedSord.stage = "sord"
    /\ BeforeDone("sord_se", T, SordSe(typedSord.cell, T))
    /\ UNCHANGED typedCalls
    /\ UNCHANGED <<sordVars, ffVars, aggVars, pairVars>>

\* sord.typed::<T>(): the TypedSord<T> that takes the Sord's place, or
\* nothing.
Converted(T, r) ==
    IF r.tag = "Some"
    THEN [stage |-> "typed", via |-> "typed",
          cell |-> MkTypedSord(T, r.val.se, r.val.de)]
    ELSE [stage |-> "none", via |-> "typed", cell |-> None]

Typed(T) ==
    /\ typedSord.stage = "sord"
    /\ typedSord' = Converted(T, typed(typedSord.cell, T))
    /\ typedRet' = [op |-> "typed", ty |-> T,
                    ret |-> typed(typedSord.cell, T)]
    /\ UNCHANGED typedCalls
    /\ UNCHANGED <<sordVars, ffVars, aggVars, pairVars>>

\* An operation on the TypedSord, slot being the slot it is about.
TypedDone(op, slot, o) ==
    /\ typedSord' = [typedSord EXCEPT !.cell = o.sord]
    /\ typedRet' = [op |-> op, ty |-> typedSord.cell.ty, ret |-> o.ret]
    /\ typedCalls' = IF o.ran THEN [typedCalls EXCEPT ![slot] = Bump(@)]
                     ELSE typedCalls

TypedDe ==
    /\ typedSord.stage = "typed"
    /\ TypedDone("typed_de", "de", TypedSord_de(typedSord.cell))
    /\ UNCHANGED <<sordVars, ffVars, aggVars, pairVars>>

TypedSe ==
    /\ typedSord.stage = "typed"
    /\ TypedDone("typed_se", "se", TypedSord_se(typedSord.cell))
    /\ UNCHANGED <<sordVars, ffVars, aggVars, pairVars>>

TypedNext ==
    \/ \E T \in Types : BeforeDe(T)
    \/ \E T \in Types : BeforeSe(T)
    \/ \E T \in Types : Typed(T)
    \/ TypedDe
    \/ TypedSe

TypedSpec == TypedInit /\ [][TypedNext]_vars

(***************************************************************************)
(* AggregateSpec: the caller builds Freeforms one after the other with put *)
(* and put_ref and hands the sequence to aggregate, which consumes it.     *)
(***************************************************************************)
AggValues == {val \in Values : val.ty \in {"u8", "usize", "PairMap"}}

Building == out.op = "none"

NewContainer ==
    /\ Building
    /\ Len(ffs) < MaxContainers
    /\ ffs' = Append(ffs, FreeformNew)
    /\ UNCHANGED <<out, sordVars, ffVars, pairVars, typedVars>>

PutLast(name, data) ==
    /\ Building
    /\ ffs # <<>>
    /\ ffs' = [ffs EXCEPT ![Len(ffs)] = put(@, name, data).ff]
    /\ UNCHANGED <<out, sordVars, ffVars, pairVars, typedVars>>

PutRefLast(name, data) ==
    /\ Building
    /\ ffs # <<>>
    /\ ffs' = [ffs EXCEPT ![Len(ffs)] = put_ref(@, name, data).ff]
    /\ UNCHANGED <<out, sordVars, ffVars, pairVars, typedVars>>

Aggregate ==
    /\ Building
    /\ out' = [op |-> "aggregate", arg |-> ffs, ret |-> aggregate(ffs)]
    /\ ffs' = <<>>
    /\ UNCHANGED <<sordVars, ffVars, pairVars, typedVars>>

AggregateNext ==
    \/ NewContainer
    \/ \E name \in Keys : \E data \in AggValues : PutLast(name, data)
    \/ \E name \in Keys : \E data \in AggValues : PutRefLast(name, data)
    \/ Aggregate

AggregateSpec == FreeformInit /\ [][AggregateNext]_vars

(***************************************************************************)
(* Properties.                                                             *)
(***************************************************************************)
DoneWith(t, op) == thr[t].pc = "done" /\ thr[t].op = op

\* A call of op by t returns in this step.
Returns(t, op) == thr[t].op = op /\ thr[t].pc # "done" /\ thr'[t].pc = "done"

SerializedOnly == origin.ctor \in {"from_se", "from_de_ref", "from_value"}

\* What value() has to return for a Sord built by from_de(val).
NativeOf(val) ==
    LET se == Serialize(val)
    IN  IF IsOk(se) THEN MapSeDe(Deserialize("Value", se.val)) ELSE MapSeDe(se)

\* C1: on a Sord built by from_de(v), v of type T, every returning de::<U>
\* call leaves both slots as they were and returns WrongTypeError when
\* U # T and v when U = T, whatever calls came before.
C1_WrongTypeNonFatal ==
    [][\A t \in Threads :
          (origin.ctor = "from_de" /\ Returns(t, "de")) =>
              /\ sord' = sord
              /\ thr'[t].ret = IF thr[t].ty = origin.val.ty
                               THEN Ok(origin.val)
                               ELSE Err(WrongTypeError)]_vars

\* C1 witness: one caller holds WrongTypeError from a mismatched de, another
\* holds v from de::<T>.
C1_Witness ==
    /\ origin.ctor = "from_de"
    /\ \E t, u \in Threads :
          /\ DoneWith(t, "de") /\ thr[t].ty # origin.val.ty
          /\ thr[t].ret = Err(WrongTypeError)
          /\ DoneWith(u, "de") /\ thr[u].ty = origin.val.ty
          /\ thr[u].ret = Ok(origin.val)

\* C2: a value stored by put under a key name is what get_required returns
\* for that name and the value's type, as long as no later put replaced it.
C2_PutGetRoundTrip ==
    \A name \in Keys :
        lastPut[name].tag = "Some" =>
            get_required(ff, name, lastPut[name].val.ty).ret
                = Ok(lastPut[name].val)

\* C2 witness: get_required has just returned the value put under a name,
\* while the other name holds an entry too.
C2_Witness ==
    /\ ffRet.op = "get_required"
    /\ lastPut[ffRet.key].tag = "Some"
    /\ ffRet.ty = lastPut[ffRet.key].val.ty
    /\ ffRet.ret = Ok(lastPut[ffRet.key].val)
    /\ \E other \in Keys \ {ffRet.key} : ~IsNone(ff[other])

\* C3: a slot that holds a result (a value or a cached error) keeps it in
\* every step of every thread.
C3_WriteOnce ==
    [][/\ ~IsNone(sord.se) => sord'.se = sord.se
       /\ ~IsNone(sord.de) => sord'.de = sord.de]_vars

\* C3 witness: both slots hold a result and a call with a type other than
\* the stored one has returned.
C3_Witness ==
    /\ ~IsNone(sord.se) /\ IsOk(sord.de)
    /\ \E t \in Threads :
          /\ thr[t].pc = "done" /\ thr[t].op \in {"de", "se"}
          /\ thr[t].ty # sord.de.val.ty

\* C4: at least one slot is populated in every state, and exactly one
\* before the first access.
C4_SlotPopulated ==
    /\ ~IsNone(sord.se) \/ ~IsNone(sord.de)
    /\ ~accessed => (IsNone(sord.se) \/ IsNone(sord.de))

\* C4 witness: after accesses both slots are populated.
C4_Witness ==
    accessed /\ ~IsNone(sord.se) /\ ~IsNone(sord.de) /\ deCalls + seCalls = 1

\* C5: on a Sord constructed serialized-only, the initializers of the de
\* slot call S::deserialize at most once, callers of de with the same type
\* hold the same result, and no de call aborts.
C5_ConcurrentFirstAccess ==
    SerializedOnly =>
        /\ deCalls <= 1
        /\ \A t, u \in Threads :
              (DoneWith(t, "de") /\ DoneWith(u, "de") /\ thr[t].ty = thr[u].ty)
                  => thr[t].ret = thr[u].ret
        /\ \A t \in Threads : DoneWith(t, "de") => ~IsPanic(thr[t].ret)

\* C5 witness: all threads have returned from de with one type, after one
\* deserialization.
C5_Witness ==
    /\ SerializedOnly /\ deCalls = 1
    /\ \A t \in Threads : DoneWith(t, "de") /\ thr[t].ty = thr[1].ty
    /\ ~IsNone(thr[1].ret)

\* C6: two calls of the same access operation with the same type parameter
\* hold the same result.
C6_Determinism ==
    \A t, u \in Threads :
        ( /\ thr[t].pc = "done" /\ thr[u].pc = "done"
          /\ thr[t].op = thr[u].op /\ thr[t].ty = thr[u].ty )
            => thr[t].ret = thr[u].ret

\* C6 witness: two value() calls have returned on a Sord built by from_de
\* whose se slot was filled by another call.
C6_Witness ==
    /\ origin.ctor = "from_de" /\ ~IsNone(sord.se)
    /\ \E t, u \in Threads :
          t # u /\ DoneWith(t, "value") /\ DoneWith(u, "value")

\* C7: on a Sord constructed serialized-only whose de slot holds a value,
\* that value is the deserialization of the text as the stored type, a de
\* call with another type holds WrongTypeError and a de call with the
\* stored type holds the stored value.
C7_FirstTypeWins ==
    (SerializedOnly /\ IsOk(sord.de)) =>
        /\ sord.de = Deserialize(sord.de.val.ty, sord.se.val)
        /\ \A t \in Threads :
              DoneWith(t, "de") =>
                  thr[t].ret = IF thr[t].ty = sord.de.val.ty THEN sord.de
                               ELSE Err(WrongTypeError)

\* C7 witness: the text deserializes as both types, the first got the
\* value and the second WrongTypeError.
C7_Witness ==
    /\ SerializedOnly /\ IsOk(sord.de)
    /\ \E t, u \in Threads :
          /\ DoneWith(t, "de") /\ thr[t].ty = sord.de.val.ty
          /\ thr[t].ret = sord.de
          /\ DoneWith(u, "de") /\ thr[u].ty # sord.de.val.ty
          /\ IsOk(Deserialize(thr[u].ty, sord.se.val))
          /\ thr[u].ret = Err(WrongTypeError)

\* C8: on a Sord constructed serialized-only whose de slot holds an error,
\* the error is the SeDeError of one failed deserialization of the text,
\* S::deserialize was called once, and every de call holds that error.
C8_CachedFailure ==
    (SerializedOnly /\ IsErr(sord.de)) =>
        /\ deCalls = 1
        /\ \E T \in Types :
              /\ IsErr(Deserialize(T, sord.se.val))
              /\ sord.de = MapSeDe(Deserialize(T, sord.se.val))
        /\ \A t \in Threads : DoneWith(t, "de") => thr[t].ret = sord.de

\* C8 witness: a de call with a type the text deserializes as holds the
\* error cached by the failed call with another type.
C8_Witness ==
    /\ SerializedOnly /\ IsErr(sord.de)
    /\ \E t, u \in Threads :
          /\ DoneWith(t, "de") /\ thr[t].ty = sord.de.err.cause.ty
          /\ DoneWith(u, "de") /\ thr[u].ty # thr[t].ty
          /\ IsOk(Deserialize(thr[u].ty, sord.se.val))
          /\ thr[u].ret = sord.de

\* C9: on a Sord built by from_de(v), v of type T, se::<U> with U # T
\* returns WrongTypeError and leaves the se slot as it was, and se::<T>
\* returns the serialization of v.
C9_SeWrongTypeKeepsState ==
    origin.ctor = "from_de" =>
        /\ sord.se \in {None, MapSeDe(Serialize(origin.val))}
        /\ \A t \in Threads :
              DoneWith(t, "se") =>
                  thr[t].ret = IF thr[t].ty = origin.val.ty
                               THEN MapSeDe(Serialize(origin.val))
                               ELSE Err(WrongTypeError)

\* C10: value() on a Sord built by from_de(v) returns the native form of
\* v's serialization, and on a Sord whose se slot holds a text it returns
\* the deserialization of that text, whatever the de slot holds.
C10_ValueIgnoresTypeTag ==
    \A t \in Threads :
        DoneWith(t, "value") =>
            /\ origin.ctor = "from_de" => thr[t].ret = NativeOf(origin.val)
            /\ IsOk(sord.se) =>
                  thr[t].ret = MapSeDe(Deserialize("Value", sord.se.val))

\* C10 witness: value() has returned the native value on a Sord built by
\* from_de whose se slot holds the WrongTypeError of a mismatched se call.
C10_Witness ==
    /\ origin.ctor = "from_de" /\ sord.se = Err(WrongTypeError)
    /\ \E t, u \in Threads :
          /\ DoneWith(t, "se") /\ thr[t].ret = Err(WrongTypeError)
          /\ DoneWith(u, "value") /\ IsOk(thr[u].ret)

\* C11: no call on the shared Sord ends in one of the fail-fast points (an
\* expect of an initializer, the missing bound serializer, the downcast in
\* serialize_as_any, the unreachable branch of value()).
C11_NoFailFast ==
    \A t \in Threads : ~IsPanic(thr[t].ret)

\* C11 witness: on a Sord built by from_de whose serialization failed and
\* is cached in the se slot, value() has gone through the bound serializer
\* and a de call has returned.
C11_Witness ==
    /\ origin.ctor = "from_de" /\ IsErr(sord.se)
    /\ sord.se # Err(WrongTypeError)
    /\ \E t, u \in Threads :
          /\ DoneWith(t, "value") /\ IsErr(thr[t].ret)
          /\ DoneWith(u, "de") /\ IsOk(thr[u].ret)

\* A Sord that holds only the typed value, as from_de builds it.
TypedOnly(val) == [se |-> None, de |-> Ok(val), se_fn |-> val.ty]

\* A Sord that holds only a text.
TextOnly(text) == [se |-> Ok(text), de |-> None, se_fn |-> "None"]

IsKeyNotFound(r) == IsErr(r) /\ r.err.kind = "RequiredKeyNotFound"

\* C12: every put returns Ok(()), leaves under the name a typed-only Sord
\* of the value, and leaves the entries under the other names as they were.
C12_PutNeverFails ==
    [][ffRet'.op = "put" =>
          /\ ffRet'.ret = Ok(Unit)
          /\ ff'[ffRet'.key] = Some(TypedOnly(ffRet'.data.val))
          /\ \A other \in Keys \ {ffRet'.key} : ff'[other] = ff[other]]_vars

\* C12 witness: a value the scheme cannot serialize was put, next to an
\* entry under the other name.
C12_Witness ==
    /\ ffRet.op = "put" /\ ffRet.ret = Ok(Unit)
    /\ IsErr(Serialize(ffRet.data.val))
    /\ ff[ffRet.key] = Some(TypedOnly(ffRet.data.val))
    /\ \E other \in Keys \ {ffRet.key} : ~IsNone(ff[other])

\* C13: get_required reports RequiredKeyNotFound(name) exactly for the
\* names without an entry, get_optional returns Ok(None) exactly for them,
\* and no other operation returns RequiredKeyNotFound.
C13_AbsenceExact ==
    /\ \A name \in Keys : \A T \in Types :
          LET r == get_required(ff, name, T).ret
              o == get_optional(ff, name, T).ret
          IN  /\ IsNone(ff[name]) => r = Err(RequiredKeyNotFound(name))
              /\ ~IsNone(ff[name]) => ~IsKeyNotFound(r)
              /\ (o = Ok(None)) <=> IsNone(ff[name])
    /\ IsKeyNotFound(ffRet.ret) =>
          /\ ffRet.op = "get_required"
          /\ ffRet.ret = Err(RequiredKeyNotFound(ffRet.key))
          /\ IsNone(ff[ffRet.key])

\* C13 witness: get_required has reported a missing key while the other
\* name holds an entry whose typed read fails.
C13_Witness ==
    /\ ffRet.op = "get_required"
    /\ ffRet.ret = Err(RequiredKeyNotFound(ffRet.key))
    /\ \E other \in Keys \ {ffRet.key} : \E T \in Types :
          /\ ~IsNone(ff[other])
          /\ IsErr(get_required(ff, other, T).ret)

\* What de::<T> has to return on the Sord s, with the errors as Freeform
\* reports them.
ExpectedRead(s, T) ==
    IF IsNone(s.de)
    THEN LET d == Deserialize(T, s.se.val)
         IN  IF IsErr(d) THEN Err(SerdeError(d.err)) ELSE d
    ELSE IF IsErr(s.de) THEN Err(SerdeError(s.de.err.cause))
    ELSE IF s.de.val.ty = T THEN s.de
    ELSE Err(KeyTypeDoesNotMatch)

\* C14: for a stored name, get_required and get_optional return what
\* de::<T> of the entry returns, WrongTypeError as KeyTypeDoesNotMatch and
\* SeDeError as SerdeError; a value put with one type and read with another
\* gives KeyTypeDoesNotMatch and stays readable with its own type.
C14_PresentKeyRead ==
    \A name \in Keys : \A T \in Types :
        ~IsNone(ff[name]) =>
            LET e == ExpectedRead(ff[name].val, T)
                r == get_required(ff, name, T)
                o == get_optional(ff, name, T)
            IN  /\ r.ret = e
                /\ o.ret = IF IsOk(e) THEN Ok(Some(e.val)) ELSE e
                /\ (lastPut[name].tag = "Some" /\ T # lastPut[name].val.ty) =>
                      /\ r.ret = Err(KeyTypeDoesNotMatch)
                      /\ r.ff = ff
                      /\ get_required(r.ff, name, lastPut[name].val.ty).ret
                            = Ok(lastPut[name].val)

\* C14 witness: a value put under a name was read with another type.
C14_Witness ==
    /\ ffRet.op \in {"get_required", "get_optional"}
    /\ lastPut[ffRet.key].tag = "Some"
    /\ ffRet.ty # lastPut[ffRet.key].val.ty
    /\ ffRet.ret = Err(KeyTypeDoesNotMatch)

\* C15: a put_ref whose value the scheme cannot serialize returns the
\* scheme error and leaves the whole map as it was; otherwise it leaves
\* under the name a Sord that holds only the serialization of the value.
C15_PutRefSerializes ==
    [][ffRet'.op = "put_ref" =>
          LET se == Serialize(ffRet'.data.val)
          IN  /\ IsErr(se) =>
                    ffRet'.ret = Err(SerdeError(se.err)) /\ ff' = ff
              /\ IsOk(se) =>
                    /\ ffRet'.ret = Ok(Unit)
                    /\ ff' = [ff EXCEPT
                                 ![ffRet'.key] = Some(TextOnly(se.val))]
      ]_vars

\* C15 witness: a put_ref has failed and the entry under its name is kept.
C15_Witness ==
    /\ ffRet.op = "put_ref" /\ IsErr(ffRet.ret)
    /\ ~IsNone(ff[ffRet.key])

\* The value argument of the last operation is absent or an empty Vec.
Suppressed ==
    IF ffRet'.op \in {"put_optional", "put_optional_ref"}
    THEN IsNone(ffRet'.data)
    ELSE ffRet'.data.val.v = <<>>

\* C16: put_optional without a value and put_nonempty with an empty Vec,
\* and their by-reference variants, return Ok(()) and leave the map as it
\* was; with a value they do what put (put_ref) does.
C16_SuppressedPuts ==
    [][ffRet'.op \in {"put_optional", "put_optional_ref",
                      "put_nonempty", "put_nonempty_ref"} =>
          IF Suppressed
          THEN ffRet'.ret = Ok(Unit) /\ ff' = ff
          ELSE LET p == IF ffRet'.op \in {"put_optional", "put_nonempty"}
                        THEN put(ff, ffRet'.key, ffRet'.data.val)
                        ELSE put_ref(ff, ffRet'.key, ffRet'.data.val)
               IN  ff' = p.ff /\ ffRet'.ret = p.ret]_vars

\* C16 witness: put_nonempty with an empty Vec has kept the entry stored
\* under its name.
C16_Witness ==
    /\ ffRet.op = "put_nonempty" /\ ffRet.data.val.v = <<>>
    /\ ffRet.ret = Ok(Unit)
    /\ ~IsNone(ff[ffRet.key])

\* The positions of the containers of seq that hold an entry under k.
Holders(seq, k) == {i \in 1..Len(seq) : ~IsNone(seq[i][k])}

Last(S) == CHOOSE i \in S : \A j \in S : j <= i

\* C17: aggregate of the empty sequence is None; of another sequence it is
\* Some Freeform that holds, under every name some container holds, the
\* entry of the last such container, and no entry under the other names.
C17_AggregateLastWins ==
    out.op = "aggregate" =>
        IF out.arg = <<>> THEN out.ret = None
        ELSE /\ out.ret.tag = "Some"
             /\ \A k \in Keys :
                   IF Holders(out.arg, k) = {} THEN IsNone(out.ret.val[k])
                   ELSE out.ret.val[k] = out.arg[Last(Holders(out.arg, k))][k]

\* C17 witness: two containers were merged that hold different entries
\* under one name, the first holding one more name.
C17_Witness ==
    /\ out.op = "aggregate" /\ Len(out.arg) = 2
    /\ out.ret.tag = "Some"
    /\ \E k, m \in Keys :
          /\ k # m
          /\ Holders(out.arg, k) = {1, 2}
          /\ out.arg[1][k] # out.arg[2][k]
          /\ out.ret.val[k] = out.arg[2][k]
          /\ Holders(out.arg, m) = {1}
          /\ out.ret.val[m] = out.arg[1][m]

\* The entry under k holds a Freeform in its typed slot only.
HoldsFreeform(f, k) ==
    /\ Present(f, k)
    /\ IsNone(f[k].val.se)
    /\ IsOk(f[k].val.de)
    /\ f[k].val.de.val.ty = "Freeform"

\* C18: when value() succeeds on every entry of the Freeform, its
\* conversion to a map has its names and holds the native value of every
\* entry, that of a nested Freeform being the Object of its own map; and
\* converting the map back gives a Freeform of the same names whose entries
\* hold a text only and have the native values of the first ones.
C18_ExportImportRoundTrip ==
    LET exported == export(ff)
    IN  (\A k \in Keys : Present(ff, k) => IsOk(SordValue(ff[k].val))) =>
          /\ IsOk(exported)
          /\ \A k \in Keys :
                IF Present(ff, k)
                THEN exported.val[k] = Some(SordValue(ff[k].val).val)
                ELSE IsNone(exported.val[k])
          /\ \A k \in Keys :
                HoldsFreeform(ff, k) =>
                    exported.val[k].val
                        = ObjectOf(export(ff[k].val.de.val.ff).val)
          /\ LET imported == import(exported.val)
             IN  /\ IsOk(imported)
                 /\ \A k \in Keys :
                       IF Present(ff, k)
                       THEN /\ Present(imported.val, k)
                            /\ IsOk(imported.val[k].val.se)
                            /\ IsNone(imported.val[k].val.de)
                            /\ imported.val[k].val.se_fn = "None"
                            /\ SordValue(imported.val[k].val)
                                  = SordValue(ff[k].val)
                       ELSE IsNone(imported.val[k])
          /\ (ffRet.op = "export" => ffRet.ret = exported)

\* C18 witness: a map was converted back whose entries are a number and
\* the Object of a nested Freeform that holds a number.
C18_Witness ==
    /\ ffRet.op = "import" /\ ffRet.ret = Ok(ff)
    /\ \E k, m \in Keys :
          /\ k # m
          /\ ffRet.data.val[k]
                = Some(NVObject(<<[key |-> "num",
                                   val |-> NV("Number", <<1>>)]>>))
          /\ ff[k] = Some(TextOnly(<<"{", "\"", "n", "u", "m", "\"", ":",
                                     "1", "}">>))
          /\ ff[m] = Some(TextOnly(<<"1">>))

\* de::<T> was the first typed view of the pair, T being the type of the
\* value.
ViewedAsItsType == pair.first = pair.val.ty

\* C19, as claimed: the two Sords give equal results for de::<T>, equal
\* results for value(), and WrongTypeError for a de::<U> after the de::<T>.
C19_NativeValuesEqual ==
    /\ (pairRet.op = "de" /\ pairRet.ty = pair.val.ty /\ ViewedAsItsType) =>
          pairRet.a = pairRet.b
    /\ pairRet.op = "value" => pairRet.a = pairRet.b
    /\ (pairRet.op = "de" /\ pairRet.ty # pair.val.ty /\ ViewedAsItsType) =>
          pairRet.a = Err(WrongTypeError) /\ pairRet.b = Err(WrongTypeError)

\* C19, amended: the two Sords give the value for de::<T> and
\* WrongTypeError for a de::<U> after the de::<T>; value() gives the parse
\* of the text on the one and the parse of the serialization of the value
\* on the other, which are equal when the text is that serialization up to
\* surrounding blanks.
C19_RepresentationEquivalence ==
    /\ (pairRet.op = "de" /\ pairRet.ty = pair.val.ty /\ ViewedAsItsType) =>
          pairRet.a = Ok(pair.val) /\ pairRet.b = Ok(pair.val)
    /\ (pairRet.op = "de" /\ pairRet.ty # pair.val.ty /\ ViewedAsItsType) =>
          pairRet.a = Err(WrongTypeError) /\ pairRet.b = Err(WrongTypeError)
    /\ pairRet.op = "value" =>
          /\ pairRet.a = MapSeDe(Deserialize("Value", pair.text))
          /\ pairRet.b = NativeOf(pair.val)
          /\ Trim(pair.text) = Serialize(pair.val).val =>
                pairRet.a = pairRet.b

\* C19 witness: a text with a leading blank and the u8 it encodes, both
\* viewed as u8 and then as another type.
C19_Witness ==
    /\ pair.text = <<" ", "1">> /\ pair.val = TV("u8", <<1>>)
    /\ ViewedAsItsType
    /\ pairRet.op = "de" /\ pairRet.ty = "usize"
    /\ pairRet.a = Err(WrongTypeError) /\ pairRet.b = Err(WrongTypeError)

\* C20: typed::<T>() on a Sord whose de slot holds a value of another type
\* returns None.
C20_TypeConfusionCaught ==
    (into.called /\ IsOk(sord.de) /\ sord.de.val.ty # into.ty) =>
        into.ret = None

\* C20 witness: a Sord built from a text, read as one type and converted
\* with another.
C20_Witness ==
    /\ into.called /\ into.ret = None
    /\ origin.ctor = "from_se"
    /\ IsOk(sord.se) /\ IsOk(sord.de)
    /\ sord.de.val.ty # into.ty

\* A thread is inside a call: it has called and has not returned yet.
InCall(t) == thr[t].pc \notin {"idle", "done"}

\* A thread inside a call cannot take the step it is at.
Blocked(t) ==
    \/ thr[t].pc = "de_call" /\ ~ENABLED DeGetOrInit(t)
    \/ thr[t].pc = "de_init" /\ ~ENABLED DeInit(t)
    \/ thr[t].pc = "se_call" /\ ~ENABLED SeGetOrInit(t)
    \/ thr[t].pc = "se_init" /\ ~ENABLED SeInit(t)
    \/ thr[t].pc = "value_se" /\ ~ENABLED ValueSe(t)
    \/ thr[t].pc = "value_de" /\ ~ENABLED ValueDe(t)

\* The threads running the initializer of the de slot, of the se slot.
DeInitializers == {u \in Threads : thr[u].pc = "de_init"}
SeInitializers == {u \in Threads : thr[u].pc = "se_init"}

\* A blocked thread is inside get_or_init of the slot it asked for, which
\* is empty and which exactly one other thread is initializing; a thread
\* running an initializer is never blocked.
WaitsOnlyForOwnSlot ==
    \A t \in Threads :
        /\ Blocked(t) =>
              \/ /\ thr[t].op = "de" /\ thr[t].pc = "de_call"
                 /\ ~SlotSet(sord.de)
                 /\ Cardinality(DeInitializers) = 1
              \/ /\ thr[t].op = "se" /\ thr[t].pc = "se_call"
                 /\ ~SlotSet(sord.se)
                 /\ Cardinality(SeInitializers) = 1
        /\ thr[t].pc \in {"de_init", "se_init"} => ~Blocked(t)

\* C21: under fair scheduling every call of de, se and value on the shared
\* Sord returns; a caller is blocked only on the one running initializer
\* of the slot it asked for, and an initializer is never blocked.
C21_NoDeadlock ==
    /\ []WaitsOnlyForOwnSlot
    /\ \A t \in Threads : InCall(t) ~> (thr[t].pc = "done")

\* C21 witness: a caller of de is blocked while another thread runs the
\* initializer of the de slot.
C21_Witness ==
    \E t, u \in Threads :
        /\ t # u
        /\ Blocked(t) /\ thr[t].op = "de"
        /\ thr[u].pc = "de_init"

\* A slot of a TypedSord holds what a slot of the Sord held: nothing, the
\* text or the value, or the scheme error.
SameContents(slot, typedSlot) ==
    /\ IsNone(slot) => IsNone(typedSlot)
    /\ IsOk(slot) => typedSlot = slot
    /\ IsErr(slot) =>
          /\ slot.err # WrongTypeError
          /\ typedSlot = Err(slot.err.cause)

\* The de slot is empty, holds a scheme error, or holds a value of type T.
DeSlotAdmits(slot, T) ==
    \/ IsNone(slot)
    \/ IsErr(slot) /\ slot.err # WrongTypeError
    \/ IsOk(slot) /\ slot.val.ty = T

\* C22: typed::<T>() on a Sord whose de slot is empty, holds a scheme error
\* or holds a value of type T returns a TypedSord whose se and de slots
\* hold what the Sord's slots held, whatever was called on the Sord
\* before.
C22_IntoTypedPreservesSlots ==
    (into.called /\ DeSlotAdmits(sord.de, into.ty)) =>
        /\ into.ret.tag = "Some"
        /\ SameContents(sord.se, into.ret.val.se)
        /\ SameContents(sord.de, into.ret.val.de)

\* An entry of the Freeform has no native value: value() fails on it.
SomeValueFails ==
    \E k \in Keys : ff[k] # None /\ ~IsOk(SordValue(ff[k].val))

\* C23: Freeform::serialize returns the text or the scheme error and never
\* aborts; when value() fails on an entry, it returns the error.
C23_SerializeNeverAborts ==
    ffRet.op = "serialize" =>
        /\ IsOk(ffRet.ret) \/ IsErr(ffRet.ret)
        /\ SomeValueFails => IsErr(ffRet.ret)

\* The text of the shared Sord deserializes as T.
Reads(T) == IsOk(Deserialize(T, sord.se.val))

\* C24: on a Sord constructed serialized-only that callers of de::<T1> and
\* de::<T2> share, S::deserialize is called once; the de slot is written
\* once, by the caller that ran the initializer and with a value of that
\* caller's type when the text deserializes as it; and a returning caller
\* gets the stored value if it asked for the stored type and
\* WrongTypeError if it asked for another.
C24_ConcurrentDifferentTypes ==
    [][SerializedOnly =>
          /\ deCalls' <= 1
          /\ sord'.de # sord.de =>
                /\ IsNone(sord.de) /\ deCalls = 0 /\ deCalls' = 1
                /\ \E t \in Threads :
                      /\ thr[t].pc = "de_init" /\ thr'[t].pc = "done"
                      /\ Reads(thr[t].ty) =>
                            /\ IsOk(sord'.de)
                            /\ sord'.de.val.ty = thr[t].ty
                            /\ thr'[t].ret = sord'.de
          /\ \A t \in Threads :
                (Returns(t, "de") /\ IsOk(sord'.de)) =>
                    thr'[t].ret = IF thr[t].ty = sord'.de.val.ty
                                  THEN sord'.de
                                  ELSE Err(WrongTypeError)]_vars

\* C24 witness: on a fresh Sord whose text deserializes as two types, the
\* caller with one type has run the initializer and holds the value while
\* the caller with the other type is inside de.
C24_Witness ==
    /\ SerializedOnly /\ deCalls = 1 /\ seCalls = 0
    /\ \E t, u \in Threads :
          /\ DoneWith(t, "de") /\ thr[t].ret = sord.de /\ IsOk(sord.de)
          /\ sord.de.val.ty = thr[t].ty
          /\ thr[u].pc = "de_call" /\ thr[u].ty # thr[t].ty
          /\ Reads(thr[u].ty)

\* C25: on a Sord built by from_se(s) the se slot holds s, the initializer
\* of the se slot never calls S::serialize, and every se::<T>() returns s,
\* whatever T is and whatever the de slot holds.
C25_FromSeVerbatim ==
    origin.ctor = "from_se" =>
        /\ sord.se = Ok(origin.text)
        /\ seCalls = 0
        /\ \A t \in Threads :
              DoneWith(t, "se") => thr[t].ret = Ok(origin.text)

\* C25 witness: the text has blanks around it, de has stored a value of
\* one type, and se with another type has returned the text.
C25_Witness ==
    /\ origin.ctor = "from_se" /\ origin.text # Trim(origin.text)
    /\ IsOk(sord.de)
    /\ \E t \in Threads :
          /\ DoneWith(t, "se") /\ thr[t].ty # sord.de.val.ty
          /\ thr[t].ret = Ok(origin.text)

\* The error is an error of the scheme, not a SordError.
IsSchemeError(e) == "op" \in DOMAIN e

\* The result of an operation of the TypedSord is a value or a scheme
\* error.
ValueOrSchemeError(r) == IsOk(r) \/ (IsErr(r) /\ IsSchemeError(r.err))

\* The TypedSord in hand: a slot holds a successful result, the scheme was
\* called at most once for each slot and what it gave from the other slot
\* is what the slot holds, and de() and se() return what their slot holds.
TypedSordKept ==
    typedSord.stage = "typed" =>
        /\ IsOk(typedSord.cell.se) \/ IsOk(typedSord.cell.de)
        /\ IsOk(typedSord.cell.de) =>
              typedSord.cell.de.val.ty = typedSord.cell.ty
        /\ typedCalls.de <= 1 /\ typedCalls.se <= 1
        /\ typedCalls.de = 1 =>
              /\ IsOk(typedSord.cell.se)
              /\ typedSord.cell.de
                    = Deserialize(typedSord.cell.ty, typedSord.cell.se.val)
        /\ typedCalls.se = 1 =>
              /\ IsOk(typedSord.cell.de)
              /\ typedSord.cell.se = Serialize(typedSord.cell.de.val)
        /\ typedRet.op = "typed_de" =>
              /\ typedRet.ret = typedSord.cell.de
              /\ ValueOrSchemeError(typedRet.ret)
        /\ typedRet.op = "typed_se" =>
              /\ typedRet.ret = typedSord.cell.se
              /\ ValueOrSchemeError(typedRet.ret)

\* A slot of the TypedSord that holds a result keeps it.
TypedSordWriteOnce ==
    typedSord.stage = "typed" =>
        /\ typedSord'.stage = "typed"
        /\ SlotSet(typedSord.cell.se) =>
              typedSord'.cell.se = typedSord.cell.se
        /\ SlotSet(typedSord.cell.de) =>
              typedSord'.cell.de = typedSord.cell.de

\* C26: a TypedSord built by from_de, from_se or Sord::typed always holds
\* a successful result in a slot; de() and se() compute the missing slot
\* from the other one at most once, store the value or the scheme error
\* for good, and return a value or a scheme error, never WrongTypeError
\* and never an abort.
C26_TypedSordDiscipline ==
    []TypedSordKept /\ [][TypedSordWriteOnce]_vars

\* C26 witness: a TypedSord that Sord::typed built from a Sord whose de
\* slot was empty has cached the scheme error of its own deserialization
\* and returned it from de().
C26_Witness ==
    /\ typedSord.stage = "typed" /\ typedSord.via = "typed"
    /\ typedCalls.de = 1
    /\ typedRet.op = "typed_de" /\ IsErr(typedRet.ret)
    /\ typedSord.cell.de = typedRet.ret

\* What get_owned_or_default and get_cloned_or_default have to return for
\* a name and a type: the default for a name without an entry, and what
\* de::<T> of the entry returns for a name with one.
ExpectedOrDefault(name, T) ==
    IF IsNone(ff[name]) THEN Ok(DefaultOf(T))
    ELSE ExpectedRead(ff[name].val, T)

\* C27: get_owned_or_default and get_cloned_or_default return T::default()
\* for a name without an entry; for a name with one they return the stored
\* value when de::<T> succeeds, KeyTypeDoesNotMatch when the stored value
\* has another type and the scheme error when deserializing fails.
C27_DefaultOnlyWhenAbsent ==
    /\ \A name \in Keys : \A T \in Types :
          /\ get_owned_or_default(ff, name, T).ret
                = ExpectedOrDefault(name, T)
          /\ get_cloned_or_default(ff, name, T).ret
                = ExpectedOrDefault(name, T)
    /\ ffRet.op \in {"get_owned_or_default", "get_cloned_or_default"} =>
          /\ ffRet.ret = ExpectedOrDefault(ffRet.key, ffRet.ty)
          /\ IsErr(ffRet.ret) => ~IsNone(ff[ffRet.key])

\* C27 witness: get_cloned_or_default has returned KeyTypeDoesNotMatch for
\* a value put with another type, and get_owned_or_default would return
\* the default for the other name, which has no entry.
C27_Witness ==
    /\ ffRet.op = "get_cloned_or_default"
    /\ lastPut[ffRet.key].tag = "Some"
    /\ ffRet.ty # lastPut[ffRet.key].val.ty
    /\ ffRet.ret = Err(KeyTypeDoesNotMatch)
    /\ \E other \in Keys \ {ffRet.key} :
          /\ IsNone(ff[other])
          /\ get_owned_or_default(ff, other, ffRet.ty).ret
                = Ok(DefaultOf(ffRet.ty))

\* The operations of Freeform that read an entry.
ReadOps ==
    {"get_optional", "get_required", "get_owned_or_default",
     "get_cloned_or_default"}

\* C28: a get_optional, get_required, get_owned_or_default or
\* get_cloned_or_default leaves the set of names with an entry as it was,
\* leaves every entry under another name as it was, and on the entry it
\* read leaves the se slot as it was and writes the de slot only if it
\* was empty.
C28_ReadsAreLocal ==
    [][ffRet'.op \in ReadOps =>
          /\ \A k \in Keys : IsNone(ff'[k]) <=> IsNone(ff[k])
          /\ \A k \in Keys \ {ffRet'.key} : ff'[k] = ff[k]
          /\ ~IsNone(ff[ffRet'.key]) =>
                /\ ff'[ffRet'.key].val.se = ff[ffRet'.key].val.se
                /\ ff'[ffRet'.key].val.se_fn = ff[ffRet'.key].val.se_fn
                /\ ff'[ffRet'.key].val.de # ff[ffRet'.key].val.de =>
                      IsNone(ff[ffRet'.key].val.de)]_vars

\* C28 witness: a read has filled the de slot of an entry that held only a
\* text, next to an entry under the other name.
C28_Witness ==
    /\ ffRet.op \in ReadOps
    /\ ~IsNone(ff[ffRet.key])
    /\ IsOk(ff[ffRet.key].val.se) /\ ff[ffRet.key].val.de = ffRet.ret
    /\ IsOk(ffRet.ret)
    /\ \E other \in Keys \ {ffRet.key} : ~IsNone(ff[other])

====
